---------------------------- MODULE Spec2Model ----------------------------
(***************************************************************************)
(* A model of indra/explanation/pathfinding/util.py: the signed-node codec *)
(* (path_sign_to_signed_nodes, signed_nodes_to_signed_edge), the           *)
(* belief-ordered neighbor lookup (get_sorted_neighbors), the edge filter  *)
(* registry (register_edge_filter) and subgraph extraction (get_subgraph,  *)
(* filter_to_internal_edges); and of NdexCxProcessor.get_statements in     *)
(* indra/sources/ndex_cx/processor.py.                                     *)
(*                                                                         *)
(* Python values are records [t, i, s]: t is the Python type name, i the   *)
(* integer value of an int, s the characters of a str (the sequence of     *)
(* their code points, ord(c)).  A call's outcome is a record [exc, ret]:   *)
(* exc is "none" when the call returned ret, and otherwise the name of the *)
(* exception that left the function.                                       *)
(***************************************************************************)
EXTENDS Integers, Sequences, FiniteSets, TLC

VARIABLES
    \* ---- signed-node codec ----
    cpc,        \* position of the codec scenario: "start", "fwd", "back", "direct"
    source,     \* argument source of path_sign_to_signed_nodes
    target,     \* argument target of path_sign_to_signed_nodes
    edge_sign,  \* argument edge_sign of path_sign_to_signed_nodes
    sign_tuple, \* outcome of path_sign_to_signed_nodes
    signed_nodes, \* the two signed nodes passed to signed_nodes_to_signed_edge
    signed_edge, \* outcome of signed_nodes_to_signed_edge
    \* ---- graph objects and the objects their edges refer to ----
    graphs,     \* graph objects by name: [exists, multi, nodes, edges]
    dicts,      \* edge attribute dicts by reference: [has_belief, belief, statements]
    lists,      \* 'statements' lists by reference: sequences of evidence references
    evs,        \* evidence records by reference: the value of their 'internal' flag
    \* ---- get_sorted_neighbors ----
    nbr,        \* the last call: [called, node, reverse, force_edges, out]
    \* ---- edge filter registry and get_subgraph ----
    edge_filter_functions, \* the registry: function name -> function
    reg_log,    \* the functions passed to register_edge_filter so far, in order
    reg_ret,    \* what the last register_edge_filter call returned
    G,          \* the module's global G: the name of a graph object, or "None"
    sub,        \* the get_subgraph calls: [pc, g, name, filter_edge, todo, kept,
                \* phase, scan, out]
    \* ---- changes a caller makes to a graph after get_subgraph ----
    last_mut,   \* the last change: [n, graph, kind], n counting the changes
    \* ---- NdexCxProcessor ----
    cx,         \* the CX network: its 'nodes' and 'edges' aspects
    processor,  \* the processor: [statements, node_names, node_agents, calls]
    ndex_ret    \* outcome of the last get_statements call

codecVars == <<cpc, source, target, edge_sign, sign_tuple, signed_nodes, signed_edge>>
heapVars == <<graphs, dicts, lists, evs>>
nbrVars == <<nbr>>
regVars == <<edge_filter_functions, reg_log, reg_ret>>
subVars == <<G, sub>>
mutVars == <<last_mut>>
ndexVars == <<cx, processor, ndex_ret>>

vars == <<codecVars, heapVars, nbrVars, regVars, subVars, mutVars, ndexVars>>

-----------------------------------------------------------------------------
(* Python values *)

PyInt(n) == [t |-> "int", i |-> n, s |-> <<>>]
PyStr(cs) == [t |-> "str", i |-> 0, s |-> cs]
PyNone == [t |-> "NoneType", i |-> 0, s |-> <<>>]

Returned(v) == [exc |-> "none", ret |-> v]
Raised(e) == [exc |-> e, ret |-> <<>>]
NotCalled == [exc |-> "notcalled", ret |-> <<>>]

\* The code points of the digit zero of every script: the decimal digits
\* (Unicode category Nd, Unicode 14) come in runs of ten, 0 to 9.  48 is "0",
\* 1632 ARABIC-INDIC DIGIT ZERO, 65296 FULLWIDTH DIGIT ZERO.
DigitZeros ==
    {
     48, 1632, 1776, 1984, 2406, 2534, 2662, 2790,
     2918, 3046, 3174, 3302, 3430, 3558, 3664, 3792,
     3872, 4160, 4240, 6112, 6160, 6470, 6608, 6784,
     6800, 6992, 7088, 7232, 7248, 42528, 43216, 43264,
     43472, 43504, 43600, 44016, 65296, 66720, 68912, 69734,
     69872, 69942, 70096, 70384, 70736, 70864, 71248, 71360,
     71472, 71904, 72016, 72784, 73040, 73120, 92768, 92864,
     93008, 120782, 120792, 120802, 120812, 120822, 123200, 123632,
     125264, 130032}

Digits == UNION {z..(z + 9) : z \in DigitZeros}

DigitVal(c) == c - (CHOOSE z \in DigitZeros : c \in z..(z + 9))

\* The characters int() drops around the number: tab, line feed, vertical
\* tab, form feed, carriage return, space, NEL, NBSP and the Unicode space
\* separators.
Whitespace ==
    {9, 10, 11, 12, 13, 32, 133, 160, 5760} \cup (8192..8202)
    \cup {8232, 8233, 8239, 8287, 12288}

LStrip(cs) ==
    LET ink == {k \in 1..Len(cs) : cs[k] \notin Whitespace}
    IN  IF ink = {} THEN <<>>
        ELSE SubSeq(cs, CHOOSE k \in ink : \A j \in ink : k <= j, Len(cs))

RStrip(cs) ==
    LET ink == {k \in 1..Len(cs) : cs[k] \notin Whitespace}
    IN  IF ink = {} THEN <<>>
        ELSE SubSeq(cs, 1, CHOOSE k \in ink : \A j \in ink : k >= j)

\* The digit body of an integer literal: digits, single underscores (95)
\* only between two digits.
ValidBody(cs) ==
    /\ cs # <<>>
    /\ \A k \in 1..Len(cs) :
          \/ cs[k] \in Digits
          \/ /\ cs[k] = 95
             /\ k > 1 /\ k < Len(cs)
             /\ cs[k - 1] \in Digits /\ cs[k + 1] \in Digits

\* The body from its first digit that is not a zero: leading zeros and the
\* underscores among them add nothing to the value.
Significant(cs) ==
    LET nz == {k \in 1..Len(cs) : cs[k] \in Digits /\ DigitVal(cs[k]) # 0}
    IN  IF nz = {} THEN <<>>
        ELSE SubSeq(cs, CHOOSE k \in nz : \A j \in nz : k <= j, Len(cs))

RECURSIVE DigitsVal(_, _)
DigitsVal(cs, acc) ==
    IF cs = <<>> THEN acc
    ELSE IF Head(cs) = 95 THEN DigitsVal(Tail(cs), acc)
    ELSE DigitsVal(Tail(cs), 10 * acc + DigitVal(Head(cs)))

\* The value of a valid body, in base 10.
BodyVal(cs, acc) == DigitsVal(Significant(cs), acc)

\* sys.int_info.default_max_str_digits of the runtime (CPython 3.11): int()
\* refuses a str with more digits.
DefaultMaxStrDigits == 4300

\* The digits of a body, underscores not counted.
DigitCount(cs) == Cardinality({k \in 1..Len(cs) : cs[k] \in Digits})

\* int(str): surrounding whitespace is dropped, one optional sign ("+" 43,
\* "-" 45), then the digit body of at most DefaultMaxStrDigits digits;
\* anything else is a ValueError.
ParseInt(cs) ==
    LET st == RStrip(LStrip(cs))
        signed == st # <<>> /\ Head(st) \in {43, 45}
        body == IF signed THEN Tail(st) ELSE st
    IN  IF ValidBody(body) /\ DigitCount(body) <= DefaultMaxStrDigits
        THEN Returned(IF signed /\ Head(st) = 45
                      THEN 0 - BodyVal(body, 0) ELSE BodyVal(body, 0))
        ELSE Raised("ValueError")

\* The builtin int(x) on the modelled Python values.
int(x) ==
    CASE x.t = "int" -> Returned(x.i)
      [] x.t = "str" -> ParseInt(x.s)
      [] OTHER -> Raised("TypeError")

-----------------------------------------------------------------------------
(* Signed-node codec *)

\* An exception other than ValueError leaves the try statement.
path_sign_to_signed_nodes(src, tgt, sign) ==
    LET n == int(sign)
    IN  IF n.exc = "none"
        THEN IF n.ret = 0
             THEN Returned(<<<<src, PyInt(0)>>, <<tgt, PyInt(0)>>>>)
             ELSE Returned(<<<<src, PyInt(1)>>, <<tgt, PyInt(0)>>>>)
        ELSE IF n.exc = "ValueError"
             THEN Returned(<<<<PyNone, PyNone>>, <<PyNone, PyNone>>>>)
             ELSE Raised(n.exc)

\* Variant of signed_nodes_to_signed_edge: the sign of the edge is read off
\* the target node alone.
signed_nodes_to_signed_edge_TargetSign(src, tgt) ==
    LET t == int(tgt[2])
    IN  IF t.exc = "none" THEN Returned(<<src[1], tgt[1], PyInt(t.ret)>>)
        ELSE IF t.exc = "ValueError" THEN Returned(<<PyNone, PyNone, PyNone>>)
        ELSE Raised(t.exc)

\* int(source_sign) is evaluated before int(target_sign): the first exception
\* decides.
signed_nodes_to_signed_edge(src, tgt) ==
    LET source_name == src[1]
        source_sign == src[2]
        target_name == tgt[1]
        target_sign == tgt[2]
        s == int(source_sign)
        t == int(target_sign)
        failed == IF s.exc # "none" THEN s.exc ELSE t.exc
    IN  IF failed = "none"
        THEN IF s.ret = t.ret
             THEN Returned(<<source_name, target_name, PyInt(0)>>)
             ELSE Returned(<<source_name, target_name, PyInt(1)>>)
        ELSE IF failed = "ValueError"
             THEN Returned(<<PyNone, PyNone, PyNone>>)
             ELSE Raised(failed)

\* Bounds of the codec scenario.
MaxSign == 2

\* The node names 'A' and 'B' and the node 7.
NodeIds == {PyStr(<<65>>), PyStr(<<66>>), PyInt(7)}

\* The strings are '0', '1', ' 1', '-1', '1_0', 'a', '1.0', '', '+', '_1',
\* '\r1', '1\x0c', '\xa01', ARABIC-INDIC DIGIT ONE, FULLWIDTH DIGIT ZERO,
\* '\x1c1', and '0' repeated 4300 and 4301 times.
SignInputs ==
    {PyInt(n) : n \in -1..MaxSign}
    \cup {PyStr(cs) : cs \in {<<48>>, <<49>>, <<32, 49>>, <<45, 49>>,
                              <<49, 95, 48>>, <<97>>, <<49, 46, 48>>,
                              <<>>, <<43>>, <<95, 49>>,
                              <<13, 49>>, <<49, 12>>, <<160, 49>>,
                              <<1633>>, <<65296>>, <<28, 49>>,
                              [k \in 1..DefaultMaxStrDigits |-> 48],
                              [k \in 1..(DefaultMaxStrDigits + 1) |-> 48]}}
    \cup {PyNone}

CodecInit ==
    /\ cpc = "start"
    /\ source \in NodeIds
    /\ target \in NodeIds
    /\ edge_sign \in SignInputs
    /\ sign_tuple = NotCalled
    /\ signed_nodes = <<>>
    /\ signed_edge = NotCalled

\* sign_tuple = path_sign_to_signed_nodes(source, target, edge_sign)
PathSignToSignedNodes ==
    /\ cpc = "start"
    /\ sign_tuple' = path_sign_to_signed_nodes(source, target, edge_sign)
    /\ cpc' = "fwd"
    /\ UNCHANGED <<source, target, edge_sign, signed_nodes, signed_edge,
                   heapVars, nbrVars, regVars, subVars, mutVars, ndexVars>>

\* signed_edge = signed_nodes_to_signed_edge(*sign_tuple)
SignedNodesToSignedEdge ==
    /\ cpc = "fwd"
    /\ sign_tuple.exc = "none"
    /\ signed_nodes' = sign_tuple.ret
    /\ signed_edge' = signed_nodes_to_signed_edge(sign_tuple.ret[1],
                                                  sign_tuple.ret[2])
    /\ cpc' = "back"
    /\ UNCHANGED <<source, target, edge_sign, sign_tuple,
                   heapVars, nbrVars, regVars, subVars, mutVars, ndexVars>>

\* signed_nodes_to_signed_edge((source, s), (target, edge_sign)) called on
\* signed nodes supplied by the caller.
SignedNodesDirect ==
    /\ cpc = "start"
    /\ \E s \in {PyInt(0), PyInt(1), PyNone, PyStr(<<97>>)} :
          /\ signed_nodes' = <<<<source, s>>, <<target, edge_sign>>>>
          /\ signed_edge' = signed_nodes_to_signed_edge(<<source, s>>,
                                                        <<target, edge_sign>>)
    /\ cpc' = "direct"
    /\ UNCHANGED <<source, target, edge_sign, sign_tuple,
                   heapVars, nbrVars, regVars, subVars, mutVars, ndexVars>>

CodecNext ==
    \/ PathSignToSignedNodes
    \/ SignedNodesToSignedEdge
    \/ SignedNodesDirect

-----------------------------------------------------------------------------
(* Graphs.  A graph object keeps its nodes and its edges in insertion      *)
(* order, as the adjacency dicts of networkx do.  An edge is [u, v, k, d]: *)
(* its endpoints, its key among parallel edges (multigraphs only,          *)
(* otherwise 0) and the reference of its attribute dict.  An attribute     *)
(* dict holds 'belief' (when has_belief) and the reference of its          *)
(* 'statements' list; a list holds references of evidence records.         *)
(* Beliefs are counted in tenths: 3 stands for 0.3.                        *)

Nodes == {"N", "X", "Y", "W"}

Beliefs == {3, 9}

GraphIds == {"g1", "g2", "new_g1", "new_g2"}

NoGraph == [exists |-> FALSE, multi |-> FALSE, nodes |-> <<>>, edges |-> <<>>]

SeqsUpTo(S, n) == UNION {[1..k -> S] : k \in 0..n}

InSeq(seq, x) == \E i \in 1..Len(seq) : seq[i] = x

SeqToSet(seq) == {seq[i] : i \in 1..Len(seq)}

Perms(S) ==
    {p \in [1..Cardinality(S) -> S] :
        \A i, j \in 1..Cardinality(S) : i # j => p[i] # p[j]}

RECURSIVE Dedup(_, _)
Dedup(seq, acc) ==
    IF seq = <<>> THEN acc
    ELSE Dedup(Tail(seq),
               IF InSeq(acc, Head(seq)) THEN acc ELSE Append(acc, Head(seq)))

\* The description of an edge to add: G.add_edge(u, v, belief=..., statements=[...])
\* where stmts lists the 'internal' flags of the evidence records.
EdgeInputs(pairs, beliefs, stmtsOptions) ==
    {[u |-> p[1], v |-> p[2], has_belief |-> FALSE, belief |-> 0, stmts |-> s] :
        p \in pairs, s \in stmtsOptions}
    \cup {[u |-> p[1], v |-> p[2], has_belief |-> TRUE, belief |-> b, stmts |-> s] :
        p \in pairs, b \in beliefs, s \in stmtsOptions}

\* add_edge adds the endpoints it has not seen, u before v.
RECURSIVE NodeOrder(_, _)
NodeOrder(es, acc) ==
    IF es = <<>> THEN acc
    ELSE LET e == Head(es)
             a1 == IF InSeq(acc, e.u) THEN acc ELSE Append(acc, e.u)
             a2 == IF InSeq(a1, e.v) THEN a1 ELSE Append(a1, e.v)
         IN  NodeOrder(Tail(es), a2)

RECURSIVE EvCount(_)
EvCount(es) == IF es = <<>> THEN 0 ELSE Len(Head(es).stmts) + EvCount(Tail(es))

\* The graph that adding the edges es in order builds, its attribute dicts
\* allocated after dbase and its evidence records after ebase.  A
\* MultiDiGraph numbers parallel edges 0, 1, ...
BuildGraph(multi, es, dbase) ==
    [exists |-> TRUE,
     multi |-> multi,
     nodes |-> NodeOrder(es, <<>>),
     edges |-> [i \in 1..Len(es) |->
                  [u |-> es[i].u, v |-> es[i].v,
                   k |-> IF multi
                         THEN Cardinality({j \in 1..(i - 1) :
                                  es[j].u = es[i].u /\ es[j].v = es[i].v})
                         ELSE 0,
                   d |-> dbase + i]]]

BuildDicts(es, dbase) ==
    [i \in 1..Len(es) |->
        [has_belief |-> es[i].has_belief, belief |-> es[i].belief,
         statements |-> dbase + i]]

BuildLists(es, ebase) ==
    [i \in 1..Len(es) |->
        [j \in 1..Len(es[i].stmts) |-> ebase + EvCount(SubSeq(es, 1, i - 1)) + j]]

RECURSIVE BuildEvs(_)
BuildEvs(es) == IF es = <<>> THEN <<>> ELSE Head(es).stmts \o BuildEvs(Tail(es))

\* A DiGraph holds one edge per ordered pair of nodes.
DistinctPairs(es) ==
    \A i, j \in 1..Len(es) : i # j => <<es[i].u, es[i].v>> # <<es[j].u, es[j].v>>

HasNode(gr, n) == InSeq(gr.nodes, n)

EdgesBetween(gr, u, v) ==
    {i \in 1..Len(gr.edges) : gr.edges[i].u = u /\ gr.edges[i].v = v}

-----------------------------------------------------------------------------
(* get_sorted_neighbors *)

\* G.successors(node): the keys of the node's successor dict, in the order
\* their first edge was added.
Successors(gr, node) ==
    LET FromNode(e) == e.u = node
        out == SelectSeq(gr.edges, FromNode)
    IN  Dedup([i \in 1..Len(out) |-> out[i].v], <<>>)

\* G.predecessors(node)
Predecessors(gr, node) ==
    LET ToNode(e) == e.v = node
        inc == SelectSeq(gr.edges, ToNode)
    IN  Dedup([i \in 1..Len(inc) |-> inc[i].u], <<>>)

\* The node names of the model are strings of one character, with two
\* exceptions: "NX" is the str 'NX' and "5" stands for the int 5.
IntNode == "5"

\* The characters of a str node name.
NameChars(node) == IF node = "NX" THEN <<"N", "X">> ELSE <<node>>

\* G.nbunch_iter(node), as the edge views use it: a node of the graph is
\* itself; any other name is iterated as a bunch of nodes, of which the nodes
\* of the graph are kept (the characters of a str), and a name that cannot be
\* iterated is a NetworkXError.
NbunchIter(gr, node) ==
    IF HasNode(gr, node) THEN Returned({node})
    ELSE IF node = IntNode THEN Raised("NetworkXError")
    ELSE Returned({NameChars(node)[i] : i \in {j \in 1..Len(NameChars(node)) :
                                                  HasNode(gr, NameChars(node)[j])}})

\* set(G.out_edges(node)): the (u, v) pairs of the edges leaving the nodes of
\* the bunch.
OutEdges(gr, node) ==
    LET bunch == NbunchIter(gr, node)
    IN  IF bunch.exc # "none" THEN bunch
        ELSE Returned({<<gr.edges[i].u, gr.edges[i].v>> :
                          i \in {j \in 1..Len(gr.edges) : gr.edges[j].u \in bunch.ret}})

\* set(G.in_edges(node))
InEdges(gr, node) ==
    LET bunch == NbunchIter(gr, node)
    IN  IF bunch.exc # "none" THEN bunch
        ELSE Returned({<<gr.edges[i].u, gr.edges[i].v>> :
                          i \in {j \in 1..Len(gr.edges) : gr.edges[j].v \in bunch.ret}})

\* G.edges[(u, v)].get('belief', 0).  The edge view of a MultiDiGraph unpacks
\* its index into (u, v, key) and raises ValueError on a pair.
EdgeBelief(gr, u, v) ==
    IF gr.multi THEN Raised("ValueError")
    ELSE IF EdgesBetween(gr, u, v) = {} THEN Raised("KeyError")
    ELSE LET d == dicts[gr.edges[CHOOSE i \in EdgesBetween(gr, u, v) : TRUE].d]
         IN  Returned(IF d.has_belief THEN d.belief ELSE 0)

RECURSIVE InsertByKey(_, _)
InsertByKey(sorted, x) ==
    IF sorted = <<>> THEN <<x>>
    ELSE IF Head(sorted).key >= x.key
         THEN <<Head(sorted)>> \o InsertByKey(Tail(sorted), x)
         ELSE <<x>> \o sorted

RECURSIVE SortDescFrom(_, _)
SortDescFrom(rest, acc) ==
    IF rest = <<>> THEN acc
    ELSE SortDescFrom(Tail(rest), InsertByKey(acc, Head(rest)))

\* sorted(neighbors, key=..., reverse=True) with the keys already computed:
\* descending by key, elements of equal key in their original order.  The
\* first key that raises ends the call.
SortedDescending(keyed) ==
    LET bad == {i \in 1..Len(keyed) : keyed[i].key.exc # "none"}
    IN  IF bad # {}
        THEN Raised(keyed[CHOOSE i \in bad : \A j \in bad : i <= j].key.exc)
        ELSE LET vals == [i \in 1..Len(keyed) |->
                              [n |-> keyed[i].n, key |-> keyed[i].key.ret]]
                 srt == SortDescFrom(vals, <<>>)
             IN  Returned([i \in 1..Len(srt) |-> srt[i].n])

\* An allow-list is used when it is neither None nor empty.
Truthy(force_edges) == ~force_edges.none /\ force_edges.list # <<>>

\* The possible values of the local variable neighbors: with an allow-list a
\* list with one entry for each allowed incident edge, its far endpoint, in
\* the iteration order of the set of these edges, which is any order (or the
\* NetworkXError of the edge view); without
\* one the successors or predecessors, or NetworkXError for a node that is
\* not in the graph.
Neighbors(gr, node, reverse, force_edges) ==
    IF Truthy(force_edges)
    THEN LET incident == IF reverse THEN InEdges(gr, node) ELSE OutEdges(gr, node)
         IN  IF incident.exc # "none" THEN {incident}
             ELSE LET allowed == incident.ret \cap SeqToSet(force_edges.list)
                      Far(e) == IF reverse THEN e[1] ELSE e[2]
                  IN  {Returned([i \in 1..Len(p) |-> Far(p[i])]) : p \in Perms(allowed)}
    ELSE IF ~HasNode(gr, node) THEN {Raised("NetworkXError")}
    ELSE {Returned(IF reverse THEN Predecessors(gr, node) ELSE Successors(gr, node))}

\* The return statement: the neighbors sorted by the belief of the edge that
\* connects them with node.
SortNeighbors(gr, node, reverse, nbs) ==
    LET keyed == [i \in 1..Len(nbs) |->
                    [n |-> nbs[i],
                     key |-> IF reverse THEN EdgeBelief(gr, nbs[i], node)
                             ELSE EdgeBelief(gr, node, nbs[i])]]
    IN  SortedDescending(keyed)

\* The set of outcomes the call can have.
get_sorted_neighbors(gr, node, reverse, force_edges) ==
    {IF nb.exc = "none" THEN SortNeighbors(gr, node, reverse, nb.ret) ELSE nb :
        nb \in Neighbors(gr, node, reverse, force_edges)}

-----------------------------------------------------------------------------
(* The edge filter registry *)

\* A function object: its __name__ and what its body does.
Func(name, body) == [name |-> name, body |-> body]

\* The built-in filter, registered by its decorator when the module loads.
BuiltinFilter == Func("filter_to_internal_edges", "internal")

\* What dict.get returns for a name that is not registered.
NoneFunc == Func("", "None")

\* Functions a caller may register: two different functions named keep_all,
\* one that takes the name of the built-in filter, and one more.
UserFuncs ==
    {Func("keep_all", "true"), Func("keep_all", "false"),
     Func("filter_to_internal_edges", "false"), Func("keep_none", "false")}

\* Variant of register_edge_filter: a name that is already registered keeps
\* its function.
register_edge_filter_FirstWins(registry, function) ==
    [n \in DOMAIN registry \cup {function.name} |->
        IF n \in DOMAIN registry THEN registry[n] ELSE function]

\* edge_filter_functions[function.__name__] = function
register_edge_filter(registry, function) ==
    [n \in DOMAIN registry \cup {function.name} |->
        IF n = function.name THEN function ELSE registry[n]]

\* The registry when the module has loaded.
LoadedRegistry == register_edge_filter(<<>>, BuiltinFilter)

RECURSIVE RegisterAll(_, _)
RegisterAll(registry, fs) ==
    IF fs = <<>> THEN registry
    ELSE RegisterAll(register_edge_filter(registry, Head(fs)), Tail(fs))

\* edge_filter_functions.get(filter_func_name)
RegistryGet(registry, name) ==
    IF name \in DOMAIN registry THEN registry[name] ELSE NoneFunc

-----------------------------------------------------------------------------
(* get_subgraph *)

\* filter_to_internal_edges(u, v, *args), reading the graph object Gr that the
\* global G names.  G[u][v] (and G[u][v][key] with a key) raises KeyError when
\* Gr has no such edge or is not of the kind the arguments are for.
\* Variant of filter_to_internal_edges: the evidence of every edge between u
\* and v is consulted, whatever the key.
filter_to_internal_edges_AnyParallel(Gr, u, v, args) ==
    IF ~Gr.exists THEN Raised("TypeError")
    ELSE LET found == EdgesBetween(Gr, u, v)
         IN  IF found = {} \/ Gr.multi # (args # <<>>)
             THEN Raised("KeyError")
             ELSE Returned(\E i \in found :
                     LET stmts == lists[dicts[Gr.edges[i].d].statements]
                     IN  \E j \in 1..Len(stmts) : evs[stmts[j]])

filter_to_internal_edges(Gr, u, v, args) ==
    IF ~Gr.exists THEN Raised("TypeError")
    ELSE LET found == {i \in EdgesBetween(Gr, u, v) :
                          args = <<>> \/ Gr.edges[i].k = args[1]}
         IN  IF found = {} \/ Gr.multi # (args # <<>>)
             THEN Raised("KeyError")
             ELSE LET edge == dicts[Gr.edges[CHOOSE i \in found : TRUE].d]
                      stmts == lists[edge.statements]
                  IN  Returned(\E i \in 1..Len(stmts) : evs[stmts[i]])

\* One call of the view's edge predicate on the edge e of the graph being
\* filtered (a multigraph passes the key).  Calling None raises TypeError.
FilterOutcome(f, Gr, e, multi) ==
    CASE f.body = "None" -> Raised("TypeError")
      [] f.body = "true" -> Returned(TRUE)
      [] f.body = "false" -> Returned(FALSE)
      [] f.body = "internal" ->
            filter_to_internal_edges(Gr, e.u, e.v, IF multi THEN <<e.k>> ELSE <<>>)

RECURSIVE Flatten(_)
Flatten(ss) == IF ss = <<>> THEN <<>> ELSE Head(ss) \o Flatten(Tail(ss))

\* The edges of gr in the order the view hands them to copy(): node by node,
\* neighbor by neighbor, key by key.
ViewEdges(gr) ==
    LET OfPair(u, v) == LET Same(e) == e.u = u /\ e.v = v
                        IN  SelectSeq(gr.edges, Same)
        OfNode(u) == LET vs == Successors(gr, u)
                     IN  Flatten([i \in 1..Len(vs) |-> OfPair(u, vs[i])])
    IN  Flatten([i \in 1..Len(gr.nodes) |-> OfNode(gr.nodes[i])])

\* The position of copy() in its walk over the view: the edges still to
\* visit, the edges added to the new graph so far, and what the walk does
\* next.  For a DiGraph the view asks the predicate about an edge when it
\* lists the neighbor ("list") and again when it fetches the data of the
\* listed neighbor ("fetch").  For a MultiDiGraph the view first asks about
\* the keys of a pair of nodes, one after the other, until one is accepted
\* ("some", scan counting the keys asked), and only then lists and fetches
\* each key of the pair.
StartCopy(multi, todo) ==
    [todo |-> todo, kept |-> <<>>, phase |-> IF multi THEN "some" ELSE "list",
     scan |-> 1, exc |-> "none"]

\* One call of the predicate f during copy(), reading the graph Gr.  An
\* exception of the predicate leaves copy(); a neighbor or key that was listed
\* and is refused when its data is fetched is a KeyError.
CopyStep(f, Gr, multi, st) ==
    LET e == IF st.phase = "some" THEN st.todo[st.scan] ELSE Head(st.todo)
        r == FilterOutcome(f, Gr, e, multi)
        SamePair(x) == x.u = e.u /\ x.v = e.v
        After(rest) == IF multi /\ (rest = <<>> \/ ~SamePair(Head(rest)))
                       THEN "some" ELSE "list"
    IN  IF r.exc # "none" THEN [st EXCEPT !.exc = r.exc]
        ELSE CASE st.phase = "some" ->
                    IF r.ret THEN [st EXCEPT !.phase = "list", !.scan = 1]
                    ELSE IF st.scan < Len(st.todo) /\ SamePair(st.todo[st.scan + 1])
                    THEN [st EXCEPT !.scan = st.scan + 1]
                    ELSE [st EXCEPT !.todo = SubSeq(st.todo, st.scan + 1, Len(st.todo)),
                                    !.scan = 1]
               [] st.phase = "list" ->
                    IF r.ret THEN [st EXCEPT !.phase = "fetch"]
                    ELSE [st EXCEPT !.todo = Tail(st.todo),
                                    !.phase = After(Tail(st.todo))]
               [] st.phase = "fetch" ->
                    IF r.ret THEN [st EXCEPT !.todo = Tail(st.todo),
                                             !.kept = Append(st.kept, e),
                                             !.phase = After(Tail(st.todo))]
                    ELSE [st EXCEPT !.exc = "KeyError"]

RECURSIVE RunCopy(_, _, _, _)
RunCopy(f, Gr, multi, st) ==
    IF st.exc # "none" \/ st.todo = <<>> THEN st
    ELSE RunCopy(f, Gr, multi, CopyStep(f, Gr, multi, st))

\* The pass of copy() over the view with no other call in between: the edges
\* added to the new graph, up to the first call that raises.
FilterEdges(f, Gr, multi, todo) ==
    LET st == RunCopy(f, Gr, multi, StartCopy(multi, todo))
    IN  [exc |-> st.exc, kept |-> st.kept]

\* Variant of CopyGraph: the copy keeps the edges the predicate rejects.
CopyGraph_AllEdges(gr, kept, dbase) ==
    [exists |-> TRUE, multi |-> gr.multi, nodes |-> gr.nodes,
     edges |-> [i \in 1..Len(gr.edges) |->
                   [gr.edges[i] EXCEPT !.d = dbase + i]]]

\* new_g = view.copy(): a graph of the same class with all the nodes and the
\* kept edges, each with a new attribute dict allocated after dbase.
CopyGraph(gr, kept, dbase) ==
    [exists |-> TRUE, multi |-> gr.multi, nodes |-> gr.nodes,
     edges |-> [i \in 1..Len(kept) |-> [kept[i] EXCEPT !.d = dbase + i]]]

\* datadict.copy() of each kept edge: the new dict holds the same values, so
\* it refers to the same 'statements' list.
CopiedDicts(kept) == [i \in 1..Len(kept) |-> dicts[kept[i].d]]

SubIdle == [pc |-> "idle", g |-> "None", name |-> "", filter_edge |-> NoneFunc,
            todo |-> <<>>, kept |-> <<>>, phase |-> "list", scan |-> 1,
            out |-> NotCalled]

NoMut == [n |-> 0, graph |-> "None", kind |-> "none"]

Calls == {1, 2}

SourceOf(c) == IF c = 1 THEN "g1" ELSE "g2"
ResultOf(c) == IF c = 1 THEN "new_g1" ELSE "new_g2"

FilterNames == {"filter_to_internal_edges", "keep_all", "keep_none", "no_such_filter"}

\* new_g1 = get_subgraph(g1, name), run from its first statement to its return
\* with no other call in between.
GetSubgraph ==
    /\ sub[1].pc = "idle"
    /\ \E name \in FilterNames :
       LET g == graphs["g1"]
           filter_edge == RegistryGet(edge_filter_functions, name)
           pass == FilterEdges(filter_edge, g, g.multi, ViewEdges(g))
           done == [pc |-> "done", g |-> "g1", name |-> name,
                    filter_edge |-> filter_edge, todo |-> <<>>, kept |-> pass.kept,
                    phase |-> "list", scan |-> 1,
                    out |-> IF pass.exc = "none" THEN Returned("new_g1")
                            ELSE Raised(pass.exc)]
       IN  /\ G' = "g1"
           /\ sub' = [sub EXCEPT ![1] = done]
           /\ IF pass.exc = "none"
              THEN /\ graphs' = [graphs EXCEPT !["new_g1"] =
                                    CopyGraph(g, pass.kept, Len(dicts))]
                   /\ dicts' = dicts \o CopiedDicts(pass.kept)
              ELSE UNCHANGED <<graphs, dicts>>
    /\ UNCHANGED <<lists, evs, codecVars, nbrVars, regVars, mutVars, ndexVars>>

\* Bounds of the registry scenario.
MaxRegs == 4

RegInit ==
    /\ edge_filter_functions = LoadedRegistry
    /\ reg_log = <<>>
    /\ reg_ret = NoneFunc

\* reg_ret = register_edge_filter(function)
RegisterEdgeFilter ==
    /\ Len(reg_log) < MaxRegs
    /\ \E function \in UserFuncs :
          /\ edge_filter_functions' =
                 register_edge_filter(edge_filter_functions, function)
          /\ reg_ret' = function
          /\ reg_log' = Append(reg_log, function)
    /\ UNCHANGED <<codecVars, heapVars, nbrVars, subVars, mutVars, ndexVars>>

\* Bounds of the subgraph scenario.
MaxSubEdges == 2
MaxSubRegs == 1

SubPairs == {<<"N", "X">>, <<"X", "N">>, <<"X", "Y">>}

StmtsOptions == {<<>>, <<FALSE>>, <<TRUE>>, <<FALSE, TRUE>>}

\* The graph handed to get_subgraph, and the registry after the module has
\* loaded and up to MaxSubRegs functions have been registered.
SubInit ==
    /\ \E fs \in SeqsUpTo(UserFuncs, MaxSubRegs) :
          /\ edge_filter_functions = RegisterAll(LoadedRegistry, fs)
          /\ reg_log = fs
          /\ reg_ret = IF fs = <<>> THEN NoneFunc ELSE fs[Len(fs)]
    /\ G = "None"
    /\ sub = [c \in Calls |-> SubIdle]
    /\ \E multi \in BOOLEAN :
       \E es \in SeqsUpTo(EdgeInputs(SubPairs, {}, StmtsOptions), MaxSubEdges) :
          /\ multi \/ DistinctPairs(es)
          /\ graphs = [id \in GraphIds |->
                          IF id = "g1" THEN BuildGraph(multi, es, 0) ELSE NoGraph]
          /\ dicts = BuildDicts(es, 0)
          /\ lists = BuildLists(es, 0)
          /\ evs = BuildEvs(es)

-----------------------------------------------------------------------------
(* Two get_subgraph calls running interleaved, each split at the points     *)
(* where the other can run: binding the global, looking the filter up and   *)
(* opening the view, each call of the predicate during copy(), the return.  *)

\* The graph object the global G names.
GraphOf(name) == IF name = "None" THEN NoGraph ELSE graphs[name]

\* global G; G = g
Bind(c) ==
    /\ sub[c].pc = "idle"
    /\ G' = SourceOf(c)
    /\ sub' = [sub EXCEPT ![c].pc = "bound", ![c].g = SourceOf(c),
                          ![c].name = "filter_to_internal_edges"]
    /\ UNCHANGED <<heapVars, codecVars, nbrVars, regVars, mutVars, ndexVars>>

\* filter_edge = edge_filter_functions.get(filter_func_name); the view over g
\* is opened and copy() starts to walk its edges.
Lookup(c) ==
    /\ sub[c].pc = "bound"
    /\ sub' = [sub EXCEPT ![c].pc = "copy",
                          ![c].filter_edge =
                              RegistryGet(edge_filter_functions, sub[c].name),
                          ![c].todo = ViewEdges(graphs[sub[c].g]),
                          ![c].phase = StartCopy(graphs[sub[c].g].multi, <<>>).phase,
                          ![c].scan = 1]
    /\ UNCHANGED <<G, heapVars, codecVars, nbrVars, regVars, mutVars, ndexVars>>

\* copy() makes its next call of the predicate; the predicate reads the graph
\* the global G names at that moment.
EvalEdge(c) ==
    /\ sub[c].pc = "copy"
    /\ sub[c].todo # <<>>
    /\ LET st == CopyStep(sub[c].filter_edge, GraphOf(G), graphs[sub[c].g].multi,
                          [todo |-> sub[c].todo, kept |-> sub[c].kept,
                           phase |-> sub[c].phase, scan |-> sub[c].scan,
                           exc |-> "none"])
       IN  sub' = IF st.exc # "none"
                  THEN [sub EXCEPT ![c].pc = "done", ![c].out = Raised(st.exc)]
                  ELSE [sub EXCEPT ![c].todo = st.todo, ![c].kept = st.kept,
                                   ![c].phase = st.phase, ![c].scan = st.scan]
    /\ UNCHANGED <<G, heapVars, codecVars, nbrVars, regVars, mutVars, ndexVars>>

\* copy() has walked all the edges: the new graph is built and returned.
Return(c) ==
    /\ sub[c].pc = "copy"
    /\ sub[c].todo = <<>>
    /\ graphs' = [graphs EXCEPT ![ResultOf(c)] =
                     CopyGraph(graphs[sub[c].g], sub[c].kept, Len(dicts))]
    /\ dicts' = dicts \o CopiedDicts(sub[c].kept)
    /\ sub' = [sub EXCEPT ![c].pc = "done", ![c].out = Returned(ResultOf(c))]
    /\ UNCHANGED <<G, lists, evs, codecVars, nbrVars, regVars, mutVars, ndexVars>>

\* Bounds of the interleaved scenario.
MaxConcEdges == 2

ConcPairs == {<<"N", "X">>, <<"X", "N">>}

ConcInit ==
    /\ RegInit
    /\ G = "None"
    /\ sub = [c \in Calls |-> SubIdle]
    /\ last_mut = NoMut
    /\ \E m1 \in BOOLEAN, m2 \in BOOLEAN :
       \E es1 \in SeqsUpTo(EdgeInputs(ConcPairs, {}, {<<FALSE>>, <<TRUE>>}), MaxConcEdges),
          es2 \in SeqsUpTo(EdgeInputs(ConcPairs, {}, {<<FALSE>>, <<TRUE>>}), MaxConcEdges) :
          /\ m1 \/ DistinctPairs(es1)
          /\ m2 \/ DistinctPairs(es2)
          /\ graphs = [id \in GraphIds |->
                          IF id = "g1" THEN BuildGraph(m1, es1, 0)
                          ELSE IF id = "g2" THEN BuildGraph(m2, es2, Len(es1))
                          ELSE NoGraph]
          /\ dicts = BuildDicts(es1, 0) \o BuildDicts(es2, Len(es1))
          /\ lists = BuildLists(es1, 0) \o BuildLists(es2, EvCount(es1))
          /\ evs = BuildEvs(es1 \o es2)

-----------------------------------------------------------------------------
(* Changes a caller makes to g1 or to new_g1 once get_subgraph has returned *)

\* Bound of the number of later changes.
MaxMutations == 2

Mutable == {"g1", "new_g1"}

CanMutate ==
    /\ sub[1].pc = "done"
    /\ sub[1].out.exc = "none"
    /\ last_mut.n < MaxMutations

Mutated(gid, kind) == [n |-> last_mut.n + 1, graph |-> gid, kind |-> kind]

\* The key add_edge gives a new parallel edge: the number of edges between
\* the endpoints, or the next free number after it.
RECURSIVE FreeKey(_, _)
FreeKey(used, k) == IF k \in used THEN FreeKey(used, k + 1) ELSE k

NewEdgeKey(gr, u, v) ==
    LET used == {gr.edges[i].k : i \in EdgesBetween(gr, u, v)}
    IN  FreeKey(used, Cardinality(used))

\* graphs[gid].add_edge(u, v, statements=[]) for an edge the graph does not
\* hold yet (a multigraph takes a parallel edge).
AddEdge(gid, u, v) ==
    /\ CanMutate
    /\ graphs[gid].multi \/ EdgesBetween(graphs[gid], u, v) = {}
    /\ LET gr == graphs[gid]
           n1 == IF InSeq(gr.nodes, u) THEN gr.nodes ELSE Append(gr.nodes, u)
           n2 == IF InSeq(n1, v) THEN n1 ELSE Append(n1, v)
           e == [u |-> u, v |-> v,
                 k |-> IF gr.multi THEN NewEdgeKey(gr, u, v) ELSE 0,
                 d |-> Len(dicts) + 1]
       IN  /\ graphs' = [graphs EXCEPT ![gid].nodes = n2,
                                       ![gid].edges = Append(gr.edges, e)]
           /\ dicts' = Append(dicts, [has_belief |-> FALSE, belief |-> 0,
                                      statements |-> Len(lists) + 1])
           /\ lists' = Append(lists, <<>>)
    /\ last_mut' = Mutated(gid, "add_edge")
    /\ UNCHANGED <<evs, G, sub, codecVars, nbrVars, regVars, ndexVars>>

\* graphs[gid].remove_edge(u, v[, key]) for its i-th edge
RemoveEdge(gid, i) ==
    /\ CanMutate
    /\ i \in 1..Len(graphs[gid].edges)
    /\ graphs' = [graphs EXCEPT ![gid].edges =
                     SubSeq(@, 1, i - 1) \o SubSeq(@, i + 1, Len(@))]
    /\ last_mut' = Mutated(gid, "remove_edge")
    /\ UNCHANGED <<dicts, lists, evs, G, sub, codecVars, nbrVars, regVars, ndexVars>>

\* graphs[gid][u][v]['belief'] = b for its i-th edge
SetBelief(gid, i, b) ==
    /\ CanMutate
    /\ i \in 1..Len(graphs[gid].edges)
    /\ LET d == graphs[gid].edges[i].d
       IN  /\ dicts[d] # [dicts[d] EXCEPT !.has_belief = TRUE, !.belief = b]
           /\ dicts' = [dicts EXCEPT ![d].has_belief = TRUE, ![d].belief = b]
    /\ last_mut' = Mutated(gid, "set_attribute")
    /\ UNCHANGED <<graphs, lists, evs, G, sub, codecVars, nbrVars, regVars, ndexVars>>

\* graphs[gid][u][v]['statements'][j]['internal'] = not its value, for the
\* i-th edge
SetInternal(gid, i, j) ==
    /\ CanMutate
    /\ i \in 1..Len(graphs[gid].edges)
    /\ LET stmts == lists[dicts[graphs[gid].edges[i].d].statements]
       IN  /\ j \in 1..Len(stmts)
           /\ evs' = [evs EXCEPT ![stmts[j]] = ~@]
    /\ last_mut' = Mutated(gid, "set_internal")
    /\ UNCHANGED <<graphs, dicts, lists, G, sub, codecVars, nbrVars, regVars, ndexVars>>

\* Bound of the graph the scenario of later changes starts from.
MaxAliasEdges == 2

AliasInit ==
    /\ RegInit
    /\ G = "None"
    /\ sub = [c \in Calls |-> SubIdle]
    /\ last_mut = NoMut
    /\ \E multi \in BOOLEAN :
       \E es \in SeqsUpTo(EdgeInputs(ConcPairs, {}, {<<TRUE>>, <<FALSE, TRUE>>}),
                          MaxAliasEdges) :
          /\ multi \/ DistinctPairs(es)
          /\ graphs = [id \in GraphIds |->
                          IF id = "g1" THEN BuildGraph(multi, es, 0) ELSE NoGraph]
          /\ dicts = BuildDicts(es, 0)
          /\ lists = BuildLists(es, 0)
          /\ evs = BuildEvs(es)

Mutate ==
    \E gid \in Mutable :
        \/ \E p \in ConcPairs : AddEdge(gid, p[1], p[2])
        \/ \E i \in 1..Len(graphs[gid].edges) : RemoveEdge(gid, i)
        \/ \E i \in 1..Len(graphs[gid].edges), b \in Beliefs : SetBelief(gid, i, b)
        \/ \E i \in 1..Len(graphs[gid].edges), j \in 1..Len(evs) :
              SetInternal(gid, i, j)

\* Bounds of the neighbor scenario.
MaxEdges == 3

\* The calls of the scenario ask for the neighbors of N, or of the bunch N, X:
\* the edges that decide them are the edges between N and the other nodes,
\* and the edge (X, W), which shares its far endpoint with (N, W).
NbrPairs ==
    {p \in Nodes \X Nodes : p[1] # p[2] /\ "N" \in {p[1], p[2]}} \cup {<<"X", "W">>}

\* Node names that are in no graph: the str 'Z', the str 'NX', whose
\* characters can be nodes, and the int 5.
AbsentNode == "Z"
AbsentNodes == {AbsentNode, "NX", IntNode}

NoForce == [none |-> TRUE, list |-> <<>>]
ForceList(l) == [none |-> FALSE, list |-> l]

ForceInputs ==
    {NoForce, ForceList(<<>>), ForceList(<<<<"N", "X">>>>),
     ForceList(<<<<"N", "X">>, <<"Y", "N">>, <<"N", "W">>, <<"X", "N">>, <<"X", "W">>>>)}

NbrIdle == [called |-> FALSE, node |-> "", reverse |-> FALSE,
            force_edges |-> NoForce, out |-> NotCalled]

\* The graph handed to get_sorted_neighbors: a DiGraph or a MultiDiGraph built
\* from up to MaxEdges add_edge calls.
NbrInit ==
    /\ nbr = NbrIdle
    /\ \E multi \in BOOLEAN :
       \E es \in SeqsUpTo(EdgeInputs(NbrPairs, Beliefs, {<<>>}), MaxEdges) :
          /\ multi \/ DistinctPairs(es)
          /\ graphs = [id \in GraphIds |->
                          IF id = "g1" THEN BuildGraph(multi, es, 0) ELSE NoGraph]
          /\ dicts = BuildDicts(es, 0)
          /\ lists = BuildLists(es, 0)
          /\ evs = BuildEvs(es)

\* nbr.out = get_sorted_neighbors(g1, node, reverse, force_edges), the one call
\* of the scenario.
GetSortedNeighbors ==
    /\ ~nbr.called
    /\ \E node \in {"N"} \cup AbsentNodes, reverse \in BOOLEAN, force_edges \in ForceInputs :
       \E out \in get_sorted_neighbors(graphs["g1"], node, reverse, force_edges) :
          nbr' = [called |-> TRUE, node |-> node, reverse |-> reverse,
                  force_edges |-> force_edges, out |-> out]
    /\ UNCHANGED <<heapVars, codecVars, regVars, subVars, mutVars, ndexVars>>

-----------------------------------------------------------------------------
(* NdexCxProcessor (indra/sources/ndex_cx/processor.py) *)

\* _stmt_map: interaction type -> statement class.
stmt_map ==
    ("phosphorylates" :> "Phosphorylation")
    @@ ("controls-phosphorylation-of" :> "Phosphorylation")
    @@ ("in-complex-with" :> "Complex")
    @@ ("NEGATIVE_INFLUENCE" :> "Inhibition")
    @@ ("POSITIVE_INFLUENCE" :> "Activation")

\* _stmt_map.get(edge_type): the class, or None for a type that is no key.
StmtMapGet(edge_type) ==
    IF edge_type \in DOMAIN stmt_map THEN stmt_map[edge_type] ELSE "None"

\* hgnc_client.get_hgnc_id(node_name): the HGNC id of a gene symbol, None for
\* a name that is no gene symbol.
get_hgnc_id(node_name) ==
    CASE node_name = "BRAF" -> "1097"
      [] node_name = "MAP2K1" -> "6840"
      [] OTHER -> "None"

\* hgnc_client.get_uniprot_id(hgnc_id).
get_uniprot_id(hgnc_id) ==
    CASE hgnc_id = "1097" -> "P15056"
      [] hgnc_id = "6840" -> "Q02750"
      [] OTHER -> "None"

\* Agent(node_name, db_refs={'HGNC': hgnc_id, 'UP': up_id})
Agent(node_name, hgnc_id, up_id) ==
    [name |-> node_name, HGNC |-> hgnc_id, UP |-> up_id]

\* stmt_type([source_agent, target_agent]) for Complex and
\* stmt_type(source_agent, target_agent) for the other classes.
Statement(stmt_type, source_agent, target_agent) ==
    IF stmt_type = "Complex"
    THEN [type |-> stmt_type, members |-> <<source_agent, target_agent>>, args |-> <<>>]
    ELSE [type |-> stmt_type, members |-> <<>>, args |-> <<source_agent, target_agent>>]

\* _get_dict_from_list(dict_key, self.cx): the aspect of that name; a missing
\* or empty aspect is falsy under cur_dict.get and raises ValueError.
get_dict_from_list(dict_key, network) ==
    IF network[dict_key] = <<>> THEN Raised("ValueError")
    ELSE Returned(network[dict_key])

CxNodeIds(nodes) == {nodes[i].id : i \in 1..Len(nodes)}

\* d[key] = value on a dict d.
SetItem(d, key, value) ==
    [k \in DOMAIN d \cup {key} |-> IF k = key THEN value ELSE d[k]]

\* The loop of _initialize_node_agents over the nodes, in order: the name of
\* a node replaces the name stored under the same id; a node whose name has
\* no HGNC id leaves the agents as they are; an HGNC id with no UniProt id
\* fails the assert.
RECURSIVE InitializeNodeAgents(_, _, _)
InitializeNodeAgents(nodes, node_names, node_agents) ==
    IF nodes = <<>>
    THEN [exc |-> "none", node_names |-> node_names, node_agents |-> node_agents]
    ELSE LET node == Head(nodes)
             names == SetItem(node_names, node.id, node.n)
             hgnc_id == get_hgnc_id(node.n)
             up_id == get_uniprot_id(hgnc_id)
         IN  IF hgnc_id = "None"
             THEN InitializeNodeAgents(Tail(nodes), names, node_agents)
             ELSE IF up_id = "None"
             THEN [exc |-> "AssertionError", node_names |-> names,
                   node_agents |-> node_agents]
             ELSE InitializeNodeAgents(Tail(nodes), names,
                      SetItem(node_agents, node.id, Agent(node.n, hgnc_id, up_id)))

\* NdexCxProcessor(cx): __init__ and _initialize_node_agents.
NdexCxProcessor(network) ==
    LET got == get_dict_from_list("nodes", network)
    IN  IF got.exc # "none" THEN got
        ELSE LET r == InitializeNodeAgents(got.ret, <<>>, <<>>)
             IN  IF r.exc # "none" THEN Raised(r.exc)
                 ELSE Returned([statements |-> <<>>,
                                node_names |-> r.node_names,
                                node_agents |-> r.node_agents,
                                calls |-> 0])

\* The loop of get_statements over the edges, appending to statements; exc
\* names the exception that ended the loop.  edge['@id'] is read for an edge
\* of a mapped type, and the names of both endpoints are looked up for the
\* log message of a skipped edge: each is a KeyError when the key is missing.
RECURSIVE ConvertEdges(_, _, _, _)
ConvertEdges(edges, node_names, node_agents, statements) ==
    IF edges = <<>> THEN [exc |-> "none", statements |-> statements]
    ELSE LET edge == Head(edges)
             stmt_type == StmtMapGet(edge.i)
             has_both == edge.s \in DOMAIN node_agents /\ edge.t \in DOMAIN node_agents
             Rest(stmts) == ConvertEdges(Tail(edges), node_names, node_agents, stmts)
         IN  IF ~edge.has_i \/ edge.i = "" \/ stmt_type = "None"
             THEN Rest(statements)
             ELSE IF ~edge.has_id
             THEN [exc |-> "KeyError", statements |-> statements]
             ELSE IF ~has_both
             THEN IF edge.s \in DOMAIN node_names /\ edge.t \in DOMAIN node_names
                  THEN Rest(statements)
                  ELSE [exc |-> "KeyError", statements |-> statements]
             ELSE Rest(Append(statements,
                              Statement(stmt_type, node_agents[edge.s],
                                        node_agents[edge.t])))

\* self.get_statements(): the outcome, and self.statements after the call.
get_statements(self, network) ==
    LET got == get_dict_from_list("edges", network)
    IN  IF got.exc # "none" THEN [out |-> got, statements |-> self.statements]
        ELSE LET r == ConvertEdges(got.ret, self.node_names, self.node_agents,
                                   self.statements)
             IN  [out |-> IF r.exc = "none" THEN Returned(r.statements)
                          ELSE Raised(r.exc),
                  statements |-> r.statements]

\* Bounds of the processor scenario.
MaxCxEdges == 2
MaxCalls == 2

\* The 'nodes' aspects of the networks: two gene symbols; two gene symbols
\* with a name that is no gene symbol; and two gene symbols with a second
\* node under the id of the first.
CxNodeLists ==
    {<<[id |-> 1, n |-> "BRAF"], [id |-> 2, n |-> "MAP2K1"]>>,
     <<[id |-> 1, n |-> "BRAF"], [id |-> 2, n |-> "MAP2K1"], [id |-> 3, n |-> "notagene"]>>,
     <<[id |-> 1, n |-> "BRAF"], [id |-> 2, n |-> "MAP2K1"], [id |-> 1, n |-> "notagene"]>>}

\* The interaction types of the edges: the keys of the map, a type that is
\* no key, and the empty string.
EdgeTypes == DOMAIN stmt_map \cup {"interacts-with", ""}

\* The edges a network over those nodes can hold.  Every edge has 's' and
\* 't'; 'i' may be missing; some edges lack '@id' and some name an endpoint
\* (9) that is no node.
CxEdgeInputs(nodes) ==
    LET ids == CxNodeIds(nodes)
        ends == {p \in ids \X ids : p[1] # p[2]}
        dangling == {<<id, 9>> : id \in ids} \cup {<<9, id>> : id \in ids}
    IN  {[has_id |-> TRUE, s |-> p[1], t |-> p[2], has_i |-> TRUE, i |-> i] :
            p \in ends, i \in EdgeTypes}
        \cup {[has_id |-> TRUE, s |-> p[1], t |-> p[2], has_i |-> FALSE, i |-> ""] :
            p \in ends}
        \cup {[has_id |-> FALSE, s |-> p[1], t |-> p[2], has_i |-> TRUE, i |-> i] :
            p \in ends, i \in {"phosphorylates", "interacts-with"}}
        \cup {[has_id |-> TRUE, s |-> p[1], t |-> p[2], has_i |-> TRUE,
               i |-> "phosphorylates"] : p \in dangling}

NoCx == [nodes |-> <<>>, edges |-> <<>>]
NoProcessor == [statements |-> <<>>, node_names |-> <<>>, node_agents |-> <<>>,
                calls |-> 0]

NdexIdle ==
    /\ cx = NoCx
    /\ processor = NoProcessor
    /\ ndex_ret = NotCalled

\* A processor built from a CX network, before any call of get_statements.
NdexInit ==
    /\ \E nodes \in CxNodeLists :
       \E edges \in SeqsUpTo(CxEdgeInputs(nodes), MaxCxEdges) :
          cx = [nodes |-> nodes, edges |-> edges]
    /\ processor = NdexCxProcessor(cx).ret
    /\ ndex_ret = NotCalled

\* ndex_ret = processor.get_statements()
GetStatements ==
    /\ processor.calls < MaxCalls
    /\ LET r == get_statements(processor, cx)
       IN  /\ ndex_ret' = r.out
           /\ processor' = [processor EXCEPT !.statements = r.statements,
                                             !.calls = @ + 1]
    /\ UNCHANGED <<cx, codecVars, heapVars, nbrVars, regVars, subVars, mutVars>>

-----------------------------------------------------------------------------
(* Specifications *)

CodecIdle ==
    /\ cpc = "idle"
    /\ source = PyNone
    /\ target = PyNone
    /\ edge_sign = PyNone
    /\ sign_tuple = NotCalled
    /\ signed_nodes = <<>>
    /\ signed_edge = NotCalled

HeapIdle ==
    /\ graphs = [id \in GraphIds |-> NoGraph]
    /\ dicts = <<>>
    /\ lists = <<>>
    /\ evs = <<>>

SubVarsIdle ==
    /\ G = "None"
    /\ sub = [c \in Calls |-> SubIdle]
    /\ last_mut = NoMut

\* The codec functions applied to inputs drawn at the start.
InitCodec == CodecInit /\ HeapIdle /\ nbr = NbrIdle /\ RegInit /\ SubVarsIdle /\ NdexIdle

SpecCodec == InitCodec /\ [][CodecNext]_vars

\* get_sorted_neighbors applied to a graph drawn at the start.
InitNbr == NbrInit /\ CodecIdle /\ RegInit /\ SubVarsIdle /\ NdexIdle

NextNbr == GetSortedNeighbors

SpecNbr == InitNbr /\ [][NextNbr]_vars

\* Registrations after the module has loaded.
InitRegistry == RegInit /\ CodecIdle /\ HeapIdle /\ nbr = NbrIdle /\ SubVarsIdle /\ NdexIdle

NextRegistry == RegisterEdgeFilter

SpecRegistry == InitRegistry /\ [][NextRegistry]_vars

\* One get_subgraph call on a graph and a registry drawn at the start.
InitSub == SubInit /\ CodecIdle /\ nbr = NbrIdle /\ last_mut = NoMut /\ NdexIdle

NextSub == GetSubgraph

SpecSub == InitSub /\ [][NextSub]_vars

\* Two interleaved get_subgraph calls with the built-in filter, on two graphs
\* drawn at the start.
InitConc == ConcInit /\ CodecIdle /\ nbr = NbrIdle /\ NdexIdle

NextConc == \E c \in Calls : Bind(c) \/ Lookup(c) \/ EvalEdge(c) \/ Return(c)

SpecConc == InitConc /\ [][NextConc]_vars

\* One get_subgraph call, then changes to the source or to the result.
InitAlias == AliasInit /\ CodecIdle /\ nbr = NbrIdle /\ NdexIdle

NextAlias == GetSubgraph \/ Mutate

SpecAlias == InitAlias /\ [][NextAlias]_vars

\* get_statements called up to MaxCalls times on a processor built from a CX
\* network.
InitNdex == NdexInit /\ CodecIdle /\ HeapIdle /\ nbr = NbrIdle /\ RegInit /\ SubVarsIdle

NextNdex == GetStatements

SpecNdex == InitNdex /\ [][NextNdex]_vars

-----------------------------------------------------------------------------
(* Properties of the signed-node codec, under SpecCodec *)

Unparseable(x) == int(x).exc # "none"

\* C1: for an edge sign of 0 or 1, path_sign_to_signed_nodes returns
\* ((source, 0), (target, edge_sign)): the source signed node is positive and
\* the target signed node carries the polarity of the edge.
C1_PolarityOnTarget ==
    (cpc = "fwd" /\ edge_sign \in {PyInt(0), PyInt(1)})
        => sign_tuple = Returned(<<<<source, PyInt(0)>>, <<target, edge_sign>>>>)

\* C2: for a polarity p of 0 or 1, signed_nodes_to_signed_edge applied to the
\* two signed nodes that path_sign_to_signed_nodes(a, b, p) returned yields
\* exactly (a, b, p).
C2_RoundTrip ==
    (cpc = "back" /\ edge_sign \in {PyInt(0), PyInt(1)})
        => signed_edge = Returned(<<source, target, edge_sign>>)

C2_Witness ==
    /\ cpc = "back"
    /\ edge_sign = PyInt(1)
    /\ source # target
    /\ signed_edge = Returned(<<source, target, PyInt(1)>>)

\* C3: a polarity that int() cannot parse (a non-numeric string, and equally
\* None) makes neither function raise: path_sign_to_signed_nodes returns
\* ((None, None), (None, None)) and signed_nodes_to_signed_edge returns
\* (None, None, None).
C3_DecodeFailureNeverFatal ==
    /\ (cpc = "fwd" /\ Unparseable(edge_sign))
          => sign_tuple = Returned(<<<<PyNone, PyNone>>, <<PyNone, PyNone>>>>)
    /\ (cpc = "direct" /\ (Unparseable(signed_nodes[1][2])
                             \/ Unparseable(signed_nodes[2][2])))
          => signed_edge = Returned(<<PyNone, PyNone, PyNone>>)

-----------------------------------------------------------------------------
(* Properties of get_sorted_neighbors, under SpecNbr *)

\* The far endpoints of the edges of gr incident to node in the direction of
\* the search.
FarEndpoints(gr, node, reverse) ==
    {IF reverse THEN gr.edges[i].u ELSE gr.edges[i].v :
        i \in {j \in 1..Len(gr.edges) :
                 IF reverse THEN gr.edges[j].v = node ELSE gr.edges[j].u = node}}

\* The belief of an edge between node and n, 0 when the edge has none.
ConnectingBelief(gr, node, reverse, n) ==
    LET i == CHOOSE j \in 1..Len(gr.edges) :
                 IF reverse THEN gr.edges[j].u = n /\ gr.edges[j].v = node
                 ELSE gr.edges[j].u = node /\ gr.edges[j].v = n
        d == dicts[gr.edges[i].d]
    IN  IF d.has_belief THEN d.belief ELSE 0

\* out is a returned list of exactly the neighbors, each once, along which
\* the belief of the connecting edge never increases.
ExactlyNeighborsByBelief(gr, node, reverse, out) ==
    /\ out.exc = "none"
    /\ SeqToSet(out.ret) = FarEndpoints(gr, node, reverse)
    /\ Len(out.ret) = Cardinality(FarEndpoints(gr, node, reverse))
    /\ \A i, j \in 1..Len(out.ret) :
          i < j => ConnectingBelief(gr, node, reverse, out.ret[i])
                      >= ConnectingBelief(gr, node, reverse, out.ret[j])

\* C4: for every graph (a DiGraph or a MultiDiGraph), every node in it and
\* either direction, get_sorted_neighbors with no allow-list returns exactly
\* the successors or predecessors, each once, in an order along which the
\* belief of the connecting edge, 0 for an edge with no belief, never
\* increases.
C4_EveryGraph ==
    (nbr.called /\ nbr.force_edges.none /\ HasNode(graphs["g1"], nbr.node))
        => ExactlyNeighborsByBelief(graphs["g1"], nbr.node, nbr.reverse, nbr.out)

\* C5: whenever an allow-list is supplied, the empty list included, every
\* returned neighbor is the far endpoint of an edge that is incident to the
\* node in the direction of the search and is in the allow-list.
C5_OnlyAllowedEdges ==
    (nbr.called /\ ~nbr.force_edges.none /\ nbr.out.exc = "none")
        => \A i \in 1..Len(nbr.out.ret) :
              LET e == IF nbr.reverse THEN <<nbr.out.ret[i], nbr.node>>
                       ELSE <<nbr.node, nbr.out.ret[i]>>
              IN  /\ e \in SeqToSet(nbr.force_edges.list)
                  /\ nbr.out.ret[i] \in FarEndpoints(graphs["g1"], nbr.node, nbr.reverse)

-----------------------------------------------------------------------------
(* Properties of get_subgraph, under SpecSub *)

EdgeKeys(gr) == {<<gr.edges[i].u, gr.edges[i].v, gr.edges[i].k>> : i \in 1..Len(gr.edges)}

\* The edges of gr on which the function f, reading gr, returns true.
Satisfying(f, gr) ==
    {<<gr.edges[i].u, gr.edges[i].v, gr.edges[i].k>> :
        i \in {j \in 1..Len(gr.edges) :
                 FilterOutcome(f, gr, gr.edges[j], gr.multi) = Returned(TRUE)}}

\* C6: for every graph g and every registered filter name, get_subgraph(g,
\* name) returns a graph whose edges are exactly the edges of g for which the
\* registered predicate returns true.
C6_ExactlySatisfyingEdges ==
    (sub[1].pc = "done" /\ sub[1].name \in DOMAIN edge_filter_functions)
        => /\ sub[1].out = Returned("new_g1")
           /\ EdgeKeys(graphs["new_g1"])
                 = Satisfying(edge_filter_functions[sub[1].name], graphs["g1"])

\* The built-in filter kept one of two edges and dropped the other.
C6_Witness ==
    /\ sub[1].pc = "done"
    /\ sub[1].name = "filter_to_internal_edges"
    /\ edge_filter_functions["filter_to_internal_edges"] = BuiltinFilter
    /\ Len(graphs["g1"].edges) = 2
    /\ Len(graphs["new_g1"].edges) = 1
    /\ \E i \in 1..Len(lists[dicts[graphs["new_g1"].edges[1].d].statements]) :
          evs[lists[dicts[graphs["new_g1"].edges[1].d].statements][i]]

\* The internal flags of the evidence records in the 'statements' list of the
\* i-th edge of gr.
InternalFlags(gr, i) ==
    LET stmts == lists[dicts[gr.edges[i].d].statements]
    IN  [j \in 1..Len(stmts) |-> evs[stmts[j]]]

\* C11: when get_subgraph filters a graph with the built-in
\* filter_to_internal_edges, an edge (u, v) of a simple directed graph, or a
\* parallel edge (u, v, key) of a multigraph, is accepted if and only if at
\* least one evidence record of that edge's own statements list has its
\* internal flag set: an edge with an empty list or no internal record is
\* rejected, and the evidence of the other parallel edges plays no part.
C11_InternalIffOwnEvidence ==
    (/\ sub[1].pc = "done"
     /\ sub[1].name = "filter_to_internal_edges"
     /\ sub[1].filter_edge = BuiltinFilter)
        => /\ sub[1].out = Returned("new_g1")
           /\ \A i \in 1..Len(graphs["g1"].edges) :
                 LET e == graphs["g1"].edges[i]
                 IN  (<<e.u, e.v, e.k>> \in EdgeKeys(graphs["new_g1"]))
                        <=> (\E j \in 1..Len(InternalFlags(graphs["g1"], i)) :
                                InternalFlags(graphs["g1"], i)[j])

\* The built-in filter ran over a multigraph with two parallel edges, one with
\* an internal record and one without, and kept only the former.
C11_Witness ==
    /\ sub[1].pc = "done"
    /\ sub[1].name = "filter_to_internal_edges"
    /\ sub[1].filter_edge = BuiltinFilter
    /\ graphs["g1"].multi
    /\ Len(graphs["g1"].edges) = 2
    /\ graphs["g1"].edges[1].u = graphs["g1"].edges[2].u
    /\ graphs["g1"].edges[1].v = graphs["g1"].edges[2].v
    /\ InternalFlags(graphs["g1"], 1) = <<FALSE>>
    /\ InternalFlags(graphs["g1"], 2) = <<FALSE, TRUE>>
    /\ EdgeKeys(graphs["new_g1"]) = {<<graphs["g1"].edges[2].u, graphs["g1"].edges[2].v, 1>>}

\* C9: a lookup failure yields an empty result and no exception: get_subgraph
\* with a filter name that is not registered returns a graph with no edges,
\* and get_sorted_neighbors with a node that is not in the graph returns an
\* empty list.
C9_LookupFailuresYieldEmpty ==
    /\ (sub[1].pc = "done" /\ sub[1].name \notin DOMAIN edge_filter_functions)
          => (sub[1].out = Returned("new_g1") /\ graphs["new_g1"].edges = <<>>)
    /\ (nbr.called /\ ~HasNode(graphs["g1"], nbr.node))
          => nbr.out = Returned(<<>>)

-----------------------------------------------------------------------------
(* Properties of the registry, under SpecRegistry *)

\* Every function that has been registered, the built-in one first.
Registrations == <<BuiltinFilter>> \o reg_log

\* C10: after any sequence of register_edge_filter calls the registry maps
\* each registered name to the function registered last under it (so a
\* registration leaves the entries of the other names alone), the built-in
\* filter is there from module load, and each call returns its argument.
C10_LastRegistrationWins ==
    /\ DOMAIN edge_filter_functions
          = {Registrations[i].name : i \in 1..Len(Registrations)}
    /\ \A n \in DOMAIN edge_filter_functions :
          LET last == CHOOSE i \in 1..Len(Registrations) :
                         /\ Registrations[i].name = n
                         /\ \A j \in 1..Len(Registrations) :
                               Registrations[j].name = n => j <= i
          IN  edge_filter_functions[n] = Registrations[last]
    /\ reg_log = <<>> => edge_filter_functions["filter_to_internal_edges"] = BuiltinFilter
    /\ reg_log # <<>> => reg_ret = reg_log[Len(reg_log)]

\* keep_all was registered twice with different functions; the second one is
\* in the registry and the built-in filter is untouched.
C10_Witness ==
    /\ Len(reg_log) = 2
    /\ reg_log[1] = Func("keep_all", "true")
    /\ reg_log[2] = Func("keep_all", "false")
    /\ edge_filter_functions["keep_all"] = Func("keep_all", "false")
    /\ edge_filter_functions["filter_to_internal_edges"] = BuiltinFilter
    /\ reg_ret = Func("keep_all", "false")

-----------------------------------------------------------------------------
(* Properties of the independence of the copy, under SpecAlias *)

\* What a caller can observe of a graph object: its nodes, its edges and the
\* attributes of each edge, with the evidence records of its statements.
Observable(id) ==
    LET gr == graphs[id]
    IN  [nodes |-> gr.nodes,
         edges |-> [i \in 1..Len(gr.edges) |->
             LET d == dicts[gr.edges[i].d]
             IN  [u |-> gr.edges[i].u, v |-> gr.edges[i].v, k |-> gr.edges[i].k,
                  has_belief |-> d.has_belief, belief |-> d.belief,
                  statements |-> [j \in 1..Len(lists[d.statements]) |->
                                     evs[lists[d.statements][j]]]]]]

\* The step is the get_subgraph call.
CallStep == sub[1].pc = "idle" /\ sub'[1].pc = "done"

\* The step is a change made through the graph id.
ChangeOf(id) == last_mut'.n = last_mut.n + 1 /\ last_mut'.graph = id

\* C7: get_subgraph leaves g as it was, and no later change made
\* through g2 (adding or removing an edge, changing an edge attribute,
\* changing the internal flag of an evidence record) changes g, nor the other
\* way round.
C7_FullyIndependent ==
    [][/\ CallStep => Observable("g1")' = Observable("g1")
       /\ ChangeOf("new_g1") => Observable("g1")' = Observable("g1")
       /\ ChangeOf("g1") => Observable("new_g1")' = Observable("new_g1")]_vars

-----------------------------------------------------------------------------
(* Properties of interleaved calls, under SpecConc *)

\* C8: when two get_subgraph calls with filter_to_internal_edges run
\* interleaved, every call of the predicate reads the graph of the call it is
\* made for, and each call returns exactly the edges of its own graph that
\* have an internal evidence record.
C8_NoCrossTalk ==
    \A c \in Calls :
        /\ (sub[c].pc = "copy" /\ sub[c].todo # <<>>) => G = sub[c].g
        /\ sub[c].pc = "done"
              => /\ sub[c].out = Returned(ResultOf(c))
                 /\ EdgeKeys(graphs[ResultOf(c)])
                       = Satisfying(BuiltinFilter, graphs[SourceOf(c)])

-----------------------------------------------------------------------------
(* Properties of NdexCxProcessor.get_statements, under SpecNdex *)

\* The edges that yield a statement: the type is a key of the statement map
\* and both endpoints are grounded agents.
Convertible(self, edge) ==
    /\ edge.has_i
    /\ edge.i \in DOMAIN stmt_map
    /\ edge.s \in DOMAIN self.node_agents
    /\ edge.t \in DOMAIN self.node_agents

\* One statement per convertible edge of the network, in edge order.
OnePerEdge(self, network) ==
    LET IsConv(edge) == Convertible(self, edge)
        conv == SelectSeq(network.edges, IsConv)
    IN  [k \in 1..Len(conv) |->
            Statement(stmt_map[conv[k].i], self.node_agents[conv[k].s],
                      self.node_agents[conv[k].t])]

\* C12: after one or more calls of get_statements on a processor built from a
\* CX network, the returned list and the statements attribute hold exactly one
\* statement per edge whose type is in the statement map and whose endpoints
\* are both grounded, in edge order; repeating the call leaves the contents
\* as they were.
C12_OneStatementPerEdge ==
    processor.calls >= 1
        => /\ ndex_ret = Returned(OnePerEdge(processor, cx))
           /\ processor.statements = OnePerEdge(processor, cx)

=============================================================================
